---- MODULE Spec2Model ----
(***************************************************************************)
(* statexec (src/main.go): one process that runs a child command, samples  *)
(* host metrics once per second in a background loop, and optionally       *)
(* synchronises the start and the stop of the command with a peer over     *)
(* HTTP (server role: /start and /stop handlers; client role: POST /start  *)
(* before and POST /stop after the local run).                             *)
(*                                                                         *)
(* Time is counted in seconds (the ticker period and the unit of the two   *)
(* delays); timestamps are in milliseconds as in the code.  The goroutines *)
(* interleave freely and may lag behind the clock.                         *)
(***************************************************************************)
EXTENDS Integers, Sequences, FiniteSets, TLC

\* ------------------------------------------------------------------ bounds
MaxTime == 2
MaxServerTime == 1
MaxDelay == 1
MaxInv == 2
MaxRequests == 3
MaxLabels == 2
MaxSigints == 2
MaxRenderings == 2

\* ------------------------------------------------- constants of the program
CommandStatusPending == 0
CommandStatusRunning == 1
CommandStatusDone == 2
NoOverride == -1
TickMs == 1000
StatusCreated == 201
StatusAccepted == 202
StatusNoContent == 204
StatusConflict == 409
StatusPreconditionFailed == 412
\* No response reaches the caller: http.Post returns an error (lines 369-370,
\* 381-382), or the handler panicked before the response was flushed.
NoResponse == 0
\* What cmd.ProcessState.ExitCode() returns when cmd.Wait() could not wait
\* (ProcessState is nil).
NoExitCode == -1

Inv == 1..MaxInv
ExitCodes == {0, 1}
Roles == {"standalone", "client", "server"}

VARIABLES
  \* configuration (globals of main.go set by parseEnvVars/parseArgs)
  role, syncWaitForStop, delayBeforeCommand, delayAfterCommand,
  metricsStartTimeOverride, extraLabels,
  \* the process and its environment
  proc,            \* "config" | "running" | "exit0" | "exit1" | "panic"
  mpc,             \* position of main()
  now,             \* wall clock, seconds
  startable,       \* whether cmd.Start() can succeed (the command exists)
  child,           \* cmd.Process: "nil" | "running" | "exited" | "unwaitable"
  childExit,       \* exit code of the child
  childSigints,    \* interrupts delivered to the child
  \* globals of main.go
  metricsStartTime, commandState, metricStore, annotationStore,
  file,            \* the metrics artifact: <<>> (absent) or <<[annotations, metrics]>>
  fileWrites,      \* number of calls of writeResultToFile that completed
  \* startCommand, one activation per invocation
  pc, realStartTime, sleepUntil, stamp,
  \* startMetricCollectLoop, one per invocation
  lpc, msSinceStart, stopGatheringNextIteration, tickerNext, tickPending,
  loopCaptures, capturesAtStop,
  \* collectInstantMetrics in flight, per task
  inflight, base,
  \* waitForHttpSyncToStartCommand
  cmdStarted, cmdFinished, wgCount, shutdownWaiters, requests,
  invSlots,        \* how many goroutines of accepted /start requests are followed
  graceExpired,    \* the 5 s context of a shutdown goroutine has expired
  \* syncStartCommand
  sent,
  peer,            \* the server the client talks to, when it is followed
  \* interrupt signals (signal.Notify, the channel sigs and its goroutine)
  sigInstalled,    \* signal.Notify has been called for SIGINT
  sigs,            \* per invocation: signals waiting in the channel (capacity 1)
  fwd,             \* per invocation: "none" | "waiting" | "done" | "panicked"
  sigints,         \* SIGINTs the process has received
  sigintsToRunning, \* those put in a channel while the child was running
  \* the output serializer
  renderings       \* the CPU lines written by successive renderings of one snapshot

cfgVars == <<role, syncWaitForStop, delayBeforeCommand, delayAfterCommand,
             metricsStartTimeOverride>>
envVars == <<now, startable>>
childVars == <<child, childExit, childSigints>>
storeVars == <<metricsStartTime, commandState, metricStore, annotationStore,
               file, fileWrites>>
ctlVars == <<pc, realStartTime, sleepUntil, stamp>>
loopVars == <<lpc, msSinceStart, stopGatheringNextIteration, tickerNext,
              tickPending, loopCaptures, capturesAtStop>>
collectVars == <<inflight, base>>
serverVars == <<cmdStarted, cmdFinished, wgCount, shutdownWaiters, requests,
                invSlots, graceExpired>>
clientVars == <<sent, peer>>
sigVars == <<sigInstalled, sigs, fwd, sigints, sigintsToRunning>>
vars == <<cfgVars, extraLabels, proc, mpc, envVars, childVars, storeVars,
          ctlVars, loopVars, collectVars, serverVars, clientVars, sigVars, renderings>>

\* The tasks that call collectInstantMetrics: the controller and the loop of
\* each invocation.
Ctl(i) == <<"ctl", i>>
Loop(i) == <<"loop", i>>
Tasks == {Ctl(i) : i \in Inv} \cup {Loop(i) : i \in Inv}

NoMetric == [cmdStatus |-> -1, msSinceStart |-> -1, timestamp |-> -1]

\* time.Now().UnixMilli()
UnixMilli(t) == t * TickMs

Running == proc = "running"

\* ------------------------------------------------------------ addLabel
\* A label key is a sequence of characters.
Uppers ==
  <<"A", "B", "C", "D", "E", "F", "G", "H", "I", "J", "K", "L", "M",
    "N", "O", "P", "Q", "R", "S", "T", "U", "V", "W", "X", "Y", "Z">>
Lowers ==
  <<"a", "b", "c", "d", "e", "f", "g", "h", "i", "j", "k", "l", "m",
    "n", "o", "p", "q", "r", "s", "t", "u", "v", "w", "x", "y", "z">>
Digits == {"0", "1", "2", "3", "4", "5", "6", "7", "8", "9"}

Range(f) == {f[i] : i \in DOMAIN f}

\* The class [a-zA-Z0-9] of the regular expression at line 336.
IsAlnum(c) == c \in Range(Uppers) \cup Range(Lowers) \cup Digits

\* Line 336: every character outside [a-zA-Z0-9] becomes "_".
SafeKey(key) == [i \in DOMAIN key |-> IF IsAlnum(key[i]) THEN key[i] ELSE "_"]

LowerChar(c) ==
  IF c \in Range(Uppers)
    THEN Lowers[CHOOSE i \in DOMAIN Uppers : Uppers[i] = c]
    ELSE c

\* strings.ToLower (line 346).
ToLower(key) == [i \in DOMAIN key |-> LowerChar(key[i])]

\* Line 333.
forbiddenKeys ==
  { <<"i", "n", "s", "t", "a", "n", "c", "e">>,
    <<"j", "o", "b">>,
    <<"c", "p", "u">>,
    <<"m", "o", "d", "e">>,
    <<"i", "n", "t", "e", "r", "f", "a", "c", "e">> }

\* Lines 338-344: the test that rejects a key; it compares the key after the
\* replacement of line 336 and before the lowering of line 346.
Forbidden(key) == SafeKey(key) \in forbiddenKeys

\* Line 346: the key a label is stored under.
StoredKey(key) == ToLower(SafeKey(key))

\* The keys and values the label options are drawn from: the reserved names
\* in several spellings, and ordinary keys.
LabelKeys ==
  { <<"i", "n", "s", "t", "a", "n", "c", "e">>,
    <<"I", "n", "s", "t", "a", "n", "c", "e">>,
    <<"I", "N", "S", "T", "A", "N", "C", "E">>,
    <<"j", "o", "b">>, <<"J", "O", "B">>,
    <<"c", "p", "u">>, <<"C", "p", "u">>,
    <<"m", "o", "d", "e">>, <<"M", "o", "d", "e">>,
    <<"i", "n", "t", "e", "r", "f", "a", "c", "e">>,
    <<"d", "i", "s", "k">>, <<"D", "I", "S", "K">>,
    <<"e", "n", "v">>, <<"E", "N", "V">>,
    <<"m", "y", "-", "k", "e", "y">>, <<"m", "y", ".", "k", "e", "y">>,
    <<"r", "o", "l", "e">>, <<"-", "j", "o", "b">> }
LabelValues == {"dev", "prod"}

\* Lines 216-224 and 349-364, then 331-347: one --label option or one
\* SE_LABEL_<key> variable is parsed and handed to addLabel, which exits
\* on a forbidden key and stores the value otherwise.
addLabel ==
  /\ proc = "config" /\ mpc = "parse"
  /\ Cardinality(DOMAIN extraLabels) < MaxLabels
  /\ \E key \in LabelKeys, value \in LabelValues :
       IF Forbidden(key)
         THEN /\ proc' = "exit1"
              /\ UNCHANGED extraLabels
         ELSE /\ extraLabels' =
                   [k \in DOMAIN extraLabels \cup {StoredKey(key)} |->
                      IF k = StoredKey(key) THEN value ELSE extraLabels[k]]
              /\ UNCHANGED proc
  /\ UNCHANGED <<cfgVars, mpc, envVars, childVars, storeVars, ctlVars,
                 loopVars, collectVars, serverVars, clientVars, sigVars, renderings>>

\* ------------------------------------------------ collectInstantMetrics
\* The record built at lines 624-632: the command state read at that moment,
\* the caller's msSinceStart and the timestamp metricsStartTime + msSinceStart.
InstantMetric(cs, ms, mst) ==
  [cmdStatus |-> cs, msSinceStart |-> ms, timestamp |-> mst + ms]

\* Lines 621-632: task t reads commandState (cs is the value it reads) and
\* metricsStartTime, then calls the four providers.
collectBegin(t, ms, cs) ==
  inflight' = [inflight EXCEPT ![t] = InstantMetric(cs, ms, metricsStartTime)]

\* Task t is inside collectInstantMetrics.
Collecting(t) ==
  \/ t[1] = "ctl" /\ pc[t[2]] \in {"runGather", "runAppend", "doneGather", "doneAppend"}
  \/ t[1] = "loop" /\ lpc[t[2]] \in {"gather", "append"}

\* A task is calling the providers (between collectBegin and the append).
Gathering(t) ==
  \/ t[1] = "ctl" /\ pc[t[2]] \in {"runGather", "doneGather"}
  \/ t[1] = "loop" /\ lpc[t[2]] = "gather"

\* Another task is inside collectInstantMetrics at the same time as t.
Raced(t) == \E u \in Tasks \ {t} : Collecting(u)

\* Line 636, first half: append() reads the slice metricStore.  The read is
\* a step of its own only while another task is inside
\* collectInstantMetrics; with no such task the read and the write of the
\* append are one step (no other task can store in between).
collectLoad(t) ==
  /\ Raced(t)
  /\ base' = [base EXCEPT ![t] = <<metricStore>>]
  /\ UNCHANGED inflight

\* The slice an append of task t extends: the one it read earlier, or the
\* current one.
Loaded(t) == IF base[t] = <<>> THEN metricStore ELSE base[t][1]

\* Line 636, second half: append() stores the extended slice.  Two tasks
\* appending concurrently race on the slice: the later store wins and the
\* other task's element is lost.
collectStore(t) ==
  /\ metricStore' = Append(Loaded(t), inflight[t])
  /\ inflight' = [inflight EXCEPT ![t] = NoMetric]
  /\ base' = [base EXCEPT ![t] = <<>>]

\* A variant of providerPanics in which the loop goes on without the reading.
providerSkipped ==
  /\ Running
  /\ \E i \in Inv :
       /\ lpc[i] = "gather"
       /\ lpc' = [lpc EXCEPT ![i] = "select"]
       /\ inflight' = [inflight EXCEPT ![Loop(i)] = NoMetric]
  /\ UNCHANGED <<cfgVars, extraLabels, proc, mpc, envVars, childVars, storeVars,
                 ctlVars, msSinceStart, stopGatheringNextIteration, tickerNext,
                 tickPending, loopCaptures, capturesAtStop, base, serverVars,
                 clientVars, sigVars, renderings>>

\* collectors/*.go: a provider that fails panics, which ends the process.
providerPanics ==
  /\ Running
  /\ \E t \in Tasks : Gathering(t)
  /\ proc' = "panic"
  /\ UNCHANGED <<cfgVars, extraLabels, mpc, envVars, childVars, storeVars,
                 ctlVars, loopVars, collectVars, serverVars, clientVars, sigVars, renderings>>

\* ------------------------------------------------------- startCommand
StartAnnotation(t) ==
  [Time |-> t, TimeEnd |-> t, Text |-> <<"Command started">>, Tag |-> "start"]

DoneAnnotation(t, code) ==
  [Time |-> t, TimeEnd |-> t,
   Text |-> <<"Command done with status", code>>, Tag |-> "done"]

\* A variant of TimeBase that ignores the override.
TimeBaseRealOnly(override, realStart) == UnixMilli(realStart)

\* Lines 472-476: the time base of the run.
TimeBase(override, realStart) ==
  IF override # NoOverride THEN override ELSE UnixMilli(realStart)

\* A variant of Elapsed with the operands of the subtraction exchanged.
ElapsedSwapped(i) == UnixMilli(realStartTime[i]) - UnixMilli(now)

\* Lines 519 and 540: time.Now().UnixMilli() - realStartTime.UnixMilli().
Elapsed(i) == UnixMilli(now) - UnixMilli(realStartTime[i])

\* Lines 470-497 up to the sleep: time base, quit channel, loop goroutine.
startCommand_Begin(i) ==
  /\ Running /\ pc[i] = "begin"
  /\ realStartTime' = [realStartTime EXCEPT ![i] = now]
  /\ metricsStartTime' = TimeBase(metricsStartTimeOverride, now)
  /\ lpc' = [lpc EXCEPT ![i] = "start"]
  /\ sleepUntil' = [sleepUntil EXCEPT ![i] = now + delayBeforeCommand]
  /\ pc' = [pc EXCEPT ![i] = "sleepBefore"]
  /\ UNCHANGED <<cfgVars, extraLabels, proc, mpc, envVars, childVars,
                 commandState, metricStore, annotationStore, file, fileWrites,
                 stamp, msSinceStart, stopGatheringNextIteration, tickerNext,
                 tickPending, loopCaptures, capturesAtStop, collectVars,
                 serverVars, clientVars, sigVars, renderings>>

\* Lines 495-497: time.Sleep(delayBeforeCommand seconds) when it is > 0.
startCommand_SleepBefore(i) ==
  /\ Running /\ pc[i] = "sleepBefore"
  /\ now >= sleepUntil[i]
  /\ pc' = [pc EXCEPT ![i] = "notify"]
  /\ UNCHANGED <<cfgVars, extraLabels, proc, mpc, envVars, childVars, storeVars,
                 realStartTime, sleepUntil, stamp, loopVars, collectVars,
                 serverVars, clientVars, sigVars, renderings>>

\* Lines 499-509: signal.Notify registers the channel sigs for SIGINT (from
\* then on the signal no longer ends the process) and the goroutine that
\* receives from sigs is spawned.
startCommand_Notify(i) ==
  /\ Running /\ pc[i] = "notify"
  /\ pc' = [pc EXCEPT ![i] = "start"]
  /\ sigInstalled' = TRUE
  /\ sigs' = [sigs EXCEPT ![i] = 0]
  /\ fwd' = [fwd EXCEPT ![i] = "waiting"]
  /\ UNCHANGED <<cfgVars, extraLabels, proc, mpc, envVars, childVars, storeVars,
                 realStartTime, sleepUntil, stamp, loopVars, collectVars,
                 serverVars, clientVars, sigints, sigintsToRunning, renderings>>

\* cmd.Wait() has returned in some invocation: the child has been reaped and
\* cmd.Process is marked done.
Reaped ==
  \E i \in Inv :
    pc[i] \in {"doneGather", "doneAppend", "sleepAfter", "stop", "join",
               "returned", "finished"}

\* What cmd.Process.Signal does (lines 506 and 437): "nil" when cmd.Process
\* is nil (the call dereferences it), "sent" when the child is alive,
\* "ok" when the child is a zombie not yet waited for (the signal is
\* accepted and has no effect), "error" once the child has been waited for
\* (os.ErrProcessDone).
SignalOutcome ==
  CASE child = "nil" -> "nil"
    [] child = "running" -> "sent"
    [] child = "exited" /\ ~Reaped -> "ok"
    [] child = "unwaitable" -> "ok"
    [] OTHER -> "error"

\* Lines 503-509: the goroutine receives one signal and returns; a nil
\* cmd.Process or an error of Signal is a panic.
ForwarderNext(outcome) ==
  IF outcome \in {"nil", "error"} THEN "panicked" ELSE "done"

\* Lines 504-508: the goroutine of invocation i receives a signal from sigs
\* and passes it to cmd.Process.Signal.
forwardSignal(i) ==
  /\ Running /\ fwd[i] = "waiting" /\ sigs[i] > 0
  /\ sigs' = [sigs EXCEPT ![i] = 0]
  /\ fwd' = [fwd EXCEPT ![i] = ForwarderNext(SignalOutcome)]
  /\ proc' = IF ForwarderNext(SignalOutcome) = "panicked" THEN "panic" ELSE proc
  /\ childSigints' =
       IF SignalOutcome = "sent" THEN childSigints + 1 ELSE childSigints
  /\ UNCHANGED <<cfgVars, extraLabels, mpc, envVars, child, childExit,
                 storeVars, ctlVars, loopVars, collectVars, serverVars,
                 clientVars, sigInstalled, sigints, sigintsToRunning,
                 renderings>>

\* The process receives SIGINT.  Before signal.Notify the signal ends the
\* process; after it, the signal is put in every registered channel that
\* has room (line 500: capacity 1) and dropped otherwise.
receiveSigint ==
  /\ Running
  /\ sigints < MaxSigints
  /\ sigints' = sigints + 1
  /\ IF sigInstalled
       THEN /\ sigs' = [i \in Inv |-> IF fwd[i] = "none" THEN sigs[i] ELSE 1]
            /\ sigintsToRunning' =
                 IF child = "running"
                      /\ \E i \in Inv : fwd[i] # "none" /\ sigs[i] = 0
                   THEN sigintsToRunning + 1
                   ELSE sigintsToRunning
            /\ UNCHANGED proc
       ELSE /\ proc' = "killed"
            /\ UNCHANGED <<sigs, sigintsToRunning>>
  /\ UNCHANGED <<cfgVars, extraLabels, mpc, envVars, childVars, storeVars,
                 ctlVars, loopVars, collectVars, serverVars, clientVars,
                 sigInstalled, fwd, renderings>>

\* A variant of StartSucceeds for a start that cannot fail.
StartSucceedsAlways == TRUE

\* Line 512: cmd.Start() returns no error when the command can be started
\* and this Cmd has not been started before.
StartSucceeds == startable /\ child = "nil"

\* Lines 511-516: cmd.Start(); it fails when the command cannot be started
\* or when this Cmd was started already, and a failure is os.Exit(1).
startCommand_Start(i) ==
  /\ Running /\ pc[i] = "start"
  /\ IF StartSucceeds
       THEN /\ child' = "running"
            /\ pc' = [pc EXCEPT ![i] = "started"]
            /\ UNCHANGED proc
       ELSE /\ proc' = "exit1"
            /\ UNCHANGED <<child, pc>>
  /\ UNCHANGED <<cfgVars, extraLabels, mpc, envVars, childExit, childSigints,
                 storeVars, realStartTime, sleepUntil, stamp, loopVars,
                 collectVars, serverVars, clientVars, sigVars, renderings>>

\* A variant of startCommand_Running that goes straight to "done".
startCommand_RunningSkips(i) ==
  /\ Running /\ pc[i] = "started"
  /\ commandState' = CommandStatusDone
  /\ stamp' = [stamp EXCEPT ![i] = Elapsed(i)]
  /\ collectBegin(Ctl(i), Elapsed(i), CommandStatusRunning)
  /\ pc' = [pc EXCEPT ![i] = "runGather"]
  /\ UNCHANGED <<cfgVars, extraLabels, proc, mpc, envVars, childVars,
                 metricsStartTime, metricStore, annotationStore, file,
                 fileWrites, realStartTime, sleepUntil, loopVars, base,
                 serverVars, clientVars, sigVars, renderings>>

\* Lines 518-520 and 621-632: commandState becomes Running, the elapsed time
\* is taken and the controller's own capture begins.
startCommand_Running(i) ==
  /\ Running /\ pc[i] = "started"
  /\ commandState' = CommandStatusRunning
  /\ stamp' = [stamp EXCEPT ![i] = Elapsed(i)]
  /\ collectBegin(Ctl(i), Elapsed(i), CommandStatusRunning)
  /\ pc' = [pc EXCEPT ![i] = "runGather"]
  /\ UNCHANGED <<cfgVars, extraLabels, proc, mpc, envVars, childVars,
                 metricsStartTime, metricStore, annotationStore, file,
                 fileWrites, realStartTime, sleepUntil, loopVars, base,
                 serverVars, clientVars, sigVars, renderings>>

startCommand_RunLoad(i) ==
  /\ Running /\ pc[i] = "runGather"
  /\ collectLoad(Ctl(i))
  /\ pc' = [pc EXCEPT ![i] = "runAppend"]
  /\ UNCHANGED <<cfgVars, extraLabels, proc, mpc, envVars, childVars, storeVars,
                 realStartTime, sleepUntil, stamp, loopVars, serverVars,
                 clientVars, sigVars, renderings>>

\* Lines 636 and 522-534: the capture is stored, then the "Command started"
\* annotation is appended.
startCommand_RunStore(i) ==
  /\ Running /\ pc[i] \in {"runGather", "runAppend"}
  /\ collectStore(Ctl(i))
  /\ annotationStore' = Append(annotationStore, StartAnnotation(stamp[i]))
  /\ pc' = [pc EXCEPT ![i] = "wait"]
  /\ UNCHANGED <<cfgVars, extraLabels, proc, mpc, envVars, childVars,
                 metricsStartTime, commandState, file, fileWrites,
                 realStartTime, sleepUntil, stamp, loopVars, serverVars,
                 clientVars, sigVars, renderings>>

\* A variant of startCommand_Wait that does not advance commandState.
startCommand_WaitNoDone(i) ==
  /\ Running /\ pc[i] = "wait"
  /\ child = "exited"
  /\ commandState' = commandState
  /\ stamp' = [stamp EXCEPT ![i] = Elapsed(i)]
  /\ collectBegin(Ctl(i), Elapsed(i), commandState)
  /\ pc' = [pc EXCEPT ![i] = "doneGather"]
  /\ UNCHANGED <<cfgVars, extraLabels, proc, mpc, envVars, childVars,
                 metricsStartTime, metricStore, annotationStore, file,
                 fileWrites, realStartTime, sleepUntil, loopVars, base,
                 serverVars, clientVars, sigVars, renderings>>

\* Line 537: cmd.Wait() returns when the child has exited, with a nil error
\* or an ExitError, or when the child cannot be waited for, with another
\* error; the error is dropped in every case.
WaitReturns == child \in {"exited", "unwaitable"}

\* Lines 536-541 and 621-632: cmd.Wait() returns (its error is dropped),
\* commandState becomes Done and the second capture of the controller
\* begins.
startCommand_Wait(i) ==
  /\ Running /\ pc[i] = "wait"
  /\ WaitReturns
  /\ commandState' = CommandStatusDone
  /\ stamp' = [stamp EXCEPT ![i] = Elapsed(i)]
  /\ collectBegin(Ctl(i), Elapsed(i), CommandStatusDone)
  /\ pc' = [pc EXCEPT ![i] = "doneGather"]
  /\ UNCHANGED <<cfgVars, extraLabels, proc, mpc, envVars, childVars,
                 metricsStartTime, metricStore, annotationStore, file,
                 fileWrites, realStartTime, sleepUntil, loopVars, base,
                 serverVars, clientVars, sigVars, renderings>>

startCommand_DoneLoad(i) ==
  /\ Running /\ pc[i] = "doneGather"
  /\ collectLoad(Ctl(i))
  /\ pc' = [pc EXCEPT ![i] = "doneAppend"]
  /\ UNCHANGED <<cfgVars, extraLabels, proc, mpc, envVars, childVars, storeVars,
                 realStartTime, sleepUntil, stamp, loopVars, serverVars,
                 clientVars, sigVars, renderings>>

\* Lines 636 and 543-560: the capture is stored, the "Command done"
\* annotation is appended and the post-delay sleep starts.
startCommand_DoneStore(i) ==
  /\ Running /\ pc[i] \in {"doneGather", "doneAppend"}
  /\ collectStore(Ctl(i))
  /\ annotationStore' =
       Append(annotationStore, DoneAnnotation(stamp[i], childExit))
  /\ sleepUntil' = [sleepUntil EXCEPT ![i] = now + delayAfterCommand]
  /\ pc' = [pc EXCEPT ![i] = "sleepAfter"]
  /\ UNCHANGED <<cfgVars, extraLabels, proc, mpc, envVars, childVars,
                 metricsStartTime, commandState, file, fileWrites,
                 realStartTime, stamp, loopVars, serverVars, clientVars, sigVars, renderings>>

\* A variant of PostDelayOver for a controller that does not sleep.
PostDelaySkipped(i) == TRUE

\* Line 559: the sleep of the post-delay has ended.
PostDelayOver(i) == now >= sleepUntil[i]

\* Lines 557-560: time.Sleep(delayAfterCommand seconds) when it is > 0.
startCommand_SleepAfter(i) ==
  /\ Running /\ pc[i] = "sleepAfter"
  /\ PostDelayOver(i)
  /\ pc' = [pc EXCEPT ![i] = "stop"]
  /\ UNCHANGED <<cfgVars, extraLabels, proc, mpc, envVars, childVars, storeVars,
                 realStartTime, sleepUntil, stamp, loopVars, collectVars,
                 serverVars, clientVars, sigVars, renderings>>

\* What the loop does with a stop request (line 589).
OnQuit(flag) == TRUE

\* Lines 562-563, 594-596 and 588-589: the send on the unbuffered quit
\* channel completes when the loop receives it in its select.
stopCollectingMetrics(i) ==
  /\ Running /\ pc[i] = "stop" /\ lpc[i] = "select"
  /\ stopGatheringNextIteration' =
       [stopGatheringNextIteration EXCEPT ![i] = OnQuit(@)]
  /\ capturesAtStop' = [capturesAtStop EXCEPT ![i] = loopCaptures[i]]
  /\ pc' = [pc EXCEPT ![i] = "join"]
  /\ UNCHANGED <<cfgVars, extraLabels, proc, mpc, envVars, childVars, storeVars,
                 realStartTime, sleepUntil, stamp, lpc, msSinceStart,
                 tickerNext, tickPending, loopCaptures, collectVars,
                 serverVars, clientVars, sigVars, renderings>>

\* A variant of LoopFinished for a loop that signals completion as soon as
\* it has received the stop request.
LoopStopRequested(i) == stopGatheringNextIteration[i]

\* The loop goroutine has called wg.Done (line 490).
LoopFinished(i) == lpc[i] = "done"

\* A variant of startCommand_Join that returns without waiting for the loop.
startCommand_JoinNoWait(i) ==
  /\ Running /\ pc[i] = "join"
  /\ pc' = [pc EXCEPT ![i] = "returned"]
  /\ UNCHANGED <<cfgVars, extraLabels, proc, mpc, envVars, childVars, storeVars,
                 realStartTime, sleepUntil, stamp, loopVars, collectVars,
                 serverVars, clientVars, sigVars, renderings>>

\* Lines 565-567: wg.Wait(), then the return.
startCommand_Join(i) ==
  /\ Running /\ pc[i] = "join"
  /\ LoopFinished(i)
  /\ pc' = [pc EXCEPT ![i] = "returned"]
  /\ UNCHANGED <<cfgVars, extraLabels, proc, mpc, envVars, childVars, storeVars,
                 realStartTime, sleepUntil, stamp, loopVars, collectVars,
                 serverVars, clientVars, sigVars, renderings>>

\* ---------------------------------------------- startMetricCollectLoop
\* A variant of AfterCapture that never tests the stop flag.
AfterCaptureNoTest(flag) == "select"

\* Where the loop goes after a capture (lines 576-587): back to the select,
\* or, after a tick with the stop flag armed, on to the write and the return.
AfterCapture(flag) == IF flag THEN "write" ELSE "select"

\* Lines 571-576 and 621-632: the ticker is created and the capture at
\* msSinceStart = 0 begins, before any wait.
startMetricCollectLoop_Begin(i) ==
  /\ Running /\ lpc[i] = "start"
  /\ tickerNext' = [tickerNext EXCEPT ![i] = now + 1]
  /\ msSinceStart' = [msSinceStart EXCEPT ![i] = 0]
  /\ collectBegin(Loop(i), 0, commandState)
  /\ lpc' = [lpc EXCEPT ![i] = "gather"]
  /\ UNCHANGED <<cfgVars, extraLabels, proc, mpc, envVars, childVars, storeVars,
                 ctlVars, stopGatheringNextIteration, tickPending,
                 loopCaptures, capturesAtStop, base, serverVars, clientVars, sigVars, renderings>>

startMetricCollectLoop_Load(i) ==
  /\ Running /\ lpc[i] = "gather"
  /\ collectLoad(Loop(i))
  /\ lpc' = [lpc EXCEPT ![i] = "append"]
  /\ UNCHANGED <<cfgVars, extraLabels, proc, mpc, envVars, childVars, storeVars,
                 ctlVars, msSinceStart, stopGatheringNextIteration, tickerNext,
                 tickPending, loopCaptures, capturesAtStop, serverVars,
                 clientVars, sigVars, renderings>>

\* Line 636, then lines 578 or 584-587.
startMetricCollectLoop_Store(i) ==
  /\ Running /\ lpc[i] \in {"gather", "append"}
  /\ collectStore(Loop(i))
  /\ loopCaptures' = [loopCaptures EXCEPT ![i] = @ + 1]
  /\ lpc' = [lpc EXCEPT ![i] = AfterCapture(stopGatheringNextIteration[i])]
  /\ UNCHANGED <<cfgVars, extraLabels, proc, mpc, envVars, childVars,
                 metricsStartTime, commandState, annotationStore, file,
                 fileWrites, ctlVars, msSinceStart,
                 stopGatheringNextIteration, tickerNext, tickPending,
                 capturesAtStop, serverVars, clientVars, sigVars, renderings>>

\* Lines 581-583 and 621-632: a tick is received, msSinceStart grows by
\* 1000 and the capture begins.
startMetricCollectLoop_Tick(i) ==
  /\ Running /\ lpc[i] = "select"
  /\ tickPending[i]
  /\ tickPending' = [tickPending EXCEPT ![i] = FALSE]
  /\ msSinceStart' = [msSinceStart EXCEPT ![i] = @ + TickMs]
  /\ collectBegin(Loop(i), msSinceStart[i] + TickMs, commandState)
  /\ lpc' = [lpc EXCEPT ![i] = "gather"]
  /\ UNCHANGED <<cfgVars, extraLabels, proc, mpc, envVars, childVars, storeVars,
                 ctlVars, stopGatheringNextIteration, tickerNext,
                 loopCaptures, capturesAtStop, base, serverVars, clientVars, sigVars, renderings>>

\* What writeResultToFile leaves in the metrics file (lines 699-772): every
\* annotation, then every snapshot, in store order.
Rendered(annotations, metrics) ==
  <<[annotations |-> annotations, metrics |-> metrics]>>

\* Lines 585-586 and 639-775: the file is removed and written anew, then the
\* loop returns and its goroutine calls wg.Done.
writeResultToFile(i) ==
  /\ Running /\ lpc[i] = "write"
  /\ file' = Rendered(annotationStore, metricStore)
  /\ fileWrites' = fileWrites + 1
  /\ lpc' = [lpc EXCEPT ![i] = "done"]
  /\ UNCHANGED <<cfgVars, extraLabels, proc, mpc, envVars, childVars,
                 metricsStartTime, commandState, metricStore, annotationStore,
                 ctlVars, msSinceStart, stopGatheringNextIteration, tickerNext,
                 tickPending, loopCaptures, capturesAtStop, collectVars,
                 serverVars, clientVars, sigVars, renderings>>

\* --------------------------------------------------------- renderLabels
\* The orders in which a range over a Go map with key set S can visit its
\* keys: the language leaves the order unspecified and the runtime varies
\* it from one loop to the next.
RECURSIVE MapOrders(_)
MapOrders(S) ==
  IF S = {} THEN {<<>>}
  ELSE UNION {{<<k>> \o rest : rest \in MapOrders(S \ {k})} : k \in S}

\* The key="value" pairs a range over map m appends, in the order given.
Pairs(m, order) == [n \in DOMAIN order |-> <<order[n], m[order[n]]>>]

\* Lines 602-605: the static labels, always in this order.
StaticLabels == <<"instance", "job", "role">>

\* Lines 599-617: the label lists renderLabels can return for the metric
\* labels ml: the static labels, then the pairs of ml, then the pairs of
\* extraLabels, each map ranged over in some order.
renderLabels(ml) ==
  {StaticLabels \o Pairs(ml, a) \o Pairs(extraLabels, b) :
     a \in MapOrders(DOMAIN ml), b \in MapOrders(DOMAIN extraLabels)}

\* The modes in the map CpuTimePerMode of one CPU of a snapshot.
CpuModes == {"user", "system"}

\* Lines 727-730: the metric labels of one cpu_seconds_total line.
CpuLabels(cpu, mode) ==
  [k \in {"cpu", "mode"} |-> IF k = "cpu" THEN cpu ELSE mode]

\* Lines 725-733: the cpu_seconds_total lines of one CPU of one snapshot,
\* one line per mode in the order of the range over CpuTimePerMode, each
\* with the labels renderLabels returns for it.
writeCpuLines ==
  /\ Running /\ mpc = "write"
  /\ Len(renderings) < MaxRenderings
  /\ \E modes \in MapOrders(CpuModes) :
       \E labels \in [DOMAIN modes ->
                        UNION {renderLabels(CpuLabels("cpu0", m)) : m \in CpuModes}] :
         /\ \A n \in DOMAIN modes :
              labels[n] \in renderLabels(CpuLabels("cpu0", modes[n]))
         /\ renderings' =
              Append(renderings,
                     [n \in DOMAIN modes |-> [mode |-> modes[n], labels |-> labels[n]]])
  /\ UNCHANGED <<cfgVars, extraLabels, proc, mpc, envVars, childVars, storeVars,
                 ctlVars, loopVars, collectVars, serverVars, clientVars,
                 sigVars>>

\* ------------------------------------------------------- environment
\* A variant of TickerLive for a ticker that is stopped with the stop request.
TickerLiveUntilQuit(i) ==
  /\ lpc[i] \in {"gather", "append", "select", "write"}
  /\ ~stopGatheringNextIteration[i]

\* A ticker exists from time.NewTicker (line 571) to ticker.Stop (line 572).
TickerLive(i) == lpc[i] \in {"gather", "append", "select", "write"}

\* How long the clock is followed.
Horizon == IF role = "server" THEN MaxServerTime ELSE MaxTime

\* One second passes; time is counted from the first invocation of
\* startCommand.  A live ticker whose period has elapsed puts a tick in
\* its channel (capacity 1: a tick that finds the channel full is dropped).
timePasses ==
  /\ Running
  /\ now < Horizon
  /\ \E i \in Inv : pc[i] # "idle"
  /\ now' = now + 1
  /\ tickPending' = [i \in Inv |->
       IF TickerLive(i) /\ now + 1 >= tickerNext[i] THEN TRUE ELSE tickPending[i]]
  /\ tickerNext' = [i \in Inv |->
       IF TickerLive(i) /\ now + 1 >= tickerNext[i]
         THEN tickerNext[i] + 1 ELSE tickerNext[i]]
  /\ UNCHANGED <<cfgVars, extraLabels, proc, mpc, startable, childVars,
                 storeVars, ctlVars, lpc, msSinceStart,
                 stopGatheringNextIteration, loopCaptures, capturesAtStop,
                 collectVars, serverVars, clientVars, sigVars, renderings>>

\* The child process ends with some exit code.
childExits ==
  /\ Running
  /\ child = "running"
  /\ \E code \in ExitCodes :
       /\ child' = "exited"
       /\ childExit' = code
  /\ UNCHANGED <<cfgVars, extraLabels, proc, mpc, envVars, childSigints,
                 storeVars, ctlVars, loopVars, collectVars, serverVars,
                 clientVars, sigVars, renderings>>

\* The wait for the child fails (the wait system call returns an error):
\* cmd.Wait() returns that error and cmd.ProcessState stays nil.
waitFails ==
  /\ Running
  /\ child = "running"
  /\ child' = "unwaitable"
  /\ childExit' = NoExitCode
  /\ UNCHANGED <<cfgVars, extraLabels, proc, mpc, envVars, childSigints,
                 storeVars, ctlVars, loopVars, collectVars, serverVars,
                 clientVars, sigVars, renderings>>

\* --------------------------------------- waitForHttpSyncToStartCommand
\* Lines 106-107 and 389-459: the server role registers its handlers and
\* serves.
main_Server ==
  /\ Running /\ mpc = "main" /\ role = "server"
  /\ mpc' = "serving"
  /\ UNCHANGED <<cfgVars, extraLabels, proc, envVars, childVars, storeVars,
                 ctlVars, loopVars, collectVars, serverVars, clientVars, sigVars, renderings>>

Response(path, status) == [path |-> path, status |-> status]

\* The invocations whose goroutine does not exist yet.
IdleInv == {i \in 1..invSlots : pc[i] = "idle"}

\* Line 408: the test the /start handler makes under the mutex.
StartRefused == cmdStarted

\* Lines 404-428: the /start handler, under the mutex from entry to return.
\* It tests cmdStarted; the flag itself is set by the goroutine it spawns.
handleStart ==
  /\ Running /\ mpc = "serving"
  /\ Len(requests) < MaxRequests
  /\ IF StartRefused
       THEN /\ requests' = Append(requests, Response("/start", StatusConflict))
            /\ UNCHANGED <<pc, wgCount>>
       ELSE /\ IdleInv # {}
            /\ wgCount' = wgCount + 1
            /\ LET i == CHOOSE j \in IdleInv : \A k \in IdleInv : j <= k
               IN pc' = [pc EXCEPT ![i] = "spawned"]
            /\ requests' = Append(requests, Response("/start", StatusCreated))
  /\ UNCHANGED <<cfgVars, extraLabels, proc, mpc, envVars, childVars, storeVars,
                 realStartTime, sleepUntil, stamp, loopVars, collectVars,
                 cmdStarted, cmdFinished, shutdownWaiters, invSlots,
                 graceExpired,
                 clientVars, sigVars, renderings>>

\* Line 415: the goroutine of an accepted /start begins to run.
startGoroutine_SetStarted(i) ==
  /\ Running /\ pc[i] = "spawned"
  /\ cmdStarted' = TRUE
  /\ pc' = [pc EXCEPT ![i] = "begin"]
  /\ UNCHANGED <<cfgVars, extraLabels, proc, mpc, envVars, childVars, storeVars,
                 realStartTime, sleepUntil, stamp, loopVars, collectVars,
                 cmdFinished, wgCount, shutdownWaiters, requests, invSlots,
                 graceExpired,
                 clientVars, sigVars, renderings>>

\* A variant of StartCommandReturned for a goroutine that goes on as soon
\* as the child has been waited for.
StartCommandWaited(i) == pc[i] \in {"sleepAfter", "stop", "join", "returned"}

\* A variant of StartCommandReturned that holds once the stop request has
\* been handed to the loop.
StartCommandStopping(i) == pc[i] \in {"join", "returned"}

\* Line 416: the call of startCommand in the goroutine has returned.
StartCommandReturned(i) == pc[i] = "returned"

\* A variant of ExitsAfterCommand that exits in every configuration.
ExitsAfterCommandAlways == TRUE

\* Line 420: whether the goroutine ends the process after the command.
ExitsAfterCommand == ~syncWaitForStop

\* A variant of startGoroutine_Finish that clears the started flag.
startGoroutine_FinishResets(i) ==
  /\ Running /\ role = "server" /\ StartCommandReturned(i)
  /\ cmdFinished' = TRUE
  /\ cmdStarted' = FALSE
  /\ wgCount' = wgCount - 1
  /\ pc' = [pc EXCEPT ![i] = "finished"]
  /\ proc' = IF ExitsAfterCommand THEN "exit0" ELSE proc
  /\ UNCHANGED <<cfgVars, extraLabels, mpc, envVars, childVars, storeVars,
                 realStartTime, sleepUntil, stamp, loopVars, collectVars,
                 shutdownWaiters, requests, invSlots,
                 graceExpired, clientVars, sigVars, renderings>>

\* Lines 417-422: startCommand has returned in the goroutine.
startGoroutine_Finish(i) ==
  /\ Running /\ role = "server" /\ StartCommandReturned(i)
  /\ cmdFinished' = TRUE
  /\ wgCount' = wgCount - 1
  /\ pc' = [pc EXCEPT ![i] = "finished"]
  /\ proc' = IF ExitsAfterCommand THEN "exit0" ELSE proc
  /\ UNCHANGED <<cfgVars, extraLabels, mpc, envVars, childVars, storeVars,
                 realStartTime, sleepUntil, stamp, loopVars, collectVars,
                 cmdStarted, shutdownWaiters, requests, invSlots,
                 graceExpired, clientVars, sigVars, renderings>>

\* Lines 431-457: the status the /stop handler answers with.  In the
\* "accepted" branch cmd.Process.Signal dereferences cmd.Process, which is
\* nil until cmd.Start has run: the handler panics and nothing is answered.
StopStatus(started, finished, process) ==
  IF ~started THEN StatusPreconditionFailed
  ELSE IF finished THEN StatusNoContent
  ELSE IF process = "nil" THEN NoResponse
  ELSE StatusAccepted

\* Lines 441-452: the branches of the /stop handler that spawn the goroutine
\* which waits for the command and shuts the server down.
StopSchedulesShutdownAlways(status) ==
  status \in {StatusNoContent, StatusAccepted, StatusPreconditionFailed}

StopSchedulesShutdown(status) ==
  status \in {StatusNoContent, StatusAccepted}

\* Lines 430-458: the /stop handler (it takes no lock).
handleStop ==
  /\ Running /\ mpc = "serving"
  /\ Len(requests) < MaxRequests
  /\ LET status == StopStatus(cmdStarted, cmdFinished, child)
     IN /\ requests' = Append(requests, Response("/stop", status))
        /\ childSigints' =
             IF status = StatusAccepted /\ child = "running"
               THEN childSigints + 1 ELSE childSigints
        /\ shutdownWaiters' =
             IF StopSchedulesShutdown(status)
               THEN shutdownWaiters + 1 ELSE shutdownWaiters
  /\ UNCHANGED <<cfgVars, extraLabels, proc, mpc, envVars, child, childExit,
                 storeVars, ctlVars, loopVars, collectVars, cmdStarted,
                 cmdFinished, wgCount, invSlots, graceExpired, clientVars,
                 sigVars, renderings>>

\* A variant of ControllersDone that does not wait.
ControllersDoneAlways == TRUE

\* Line 446: wg.Wait() returns when every goroutine of an accepted /start
\* has called wg.Done.
ControllersDone == wgCount = 0

\* Line 443: the context of a shutdown goroutine is created, with its 5 s
\* timeout, when the goroutine starts, before wg.Wait().  The 5 seconds
\* elapse while the process runs, whatever the controller is doing.
graceExpires ==
  /\ Running /\ mpc = "serving"
  /\ shutdownWaiters > 0
  /\ ~graceExpired
  /\ graceExpired' = TRUE
  /\ UNCHANGED <<cfgVars, extraLabels, proc, mpc, envVars, childVars, storeVars,
                 ctlVars, loopVars, collectVars, cmdStarted, cmdFinished,
                 wgCount, shutdownWaiters, requests, invSlots, clientVars,
                 sigVars, renderings>>

\* Lines 449-451: what server.Shutdown(ctx) returns.  It closes the
\* listener and returns nil once every connection is idle; it returns
\* ctx.Err() when the context is done while some connection is not idle.
ShutdownFails(expired, busy) == expired /\ busy

\* Lines 446-451 and 459-464: wg.Wait() returns and server.Shutdown closes
\* the listener.  On nil, ListenAndServe returns ErrServerClosed and main
\* returns; on an error the goroutine panics (line 450).  busy: some
\* connection is not idle.
serverShutdown ==
  /\ Running /\ mpc = "serving"
  /\ shutdownWaiters > 0
  /\ ControllersDone
  /\ \E busy \in BOOLEAN :
       IF ShutdownFails(graceExpired, busy)
         THEN mpc' = "shutdownFailed" /\ proc' = "panic"
         ELSE mpc' = "exited" /\ proc' = "exit0"
  /\ UNCHANGED <<cfgVars, extraLabels, envVars, childVars, storeVars, ctlVars,
                 loopVars, collectVars, serverVars, clientVars, sigVars, renderings>>

\* ------------------------------------------------------ syncStartCommand
\* What an http.Post of the client can come back with: a transport error, or
\* a response with one of the statuses the server answers with.
StartOutcomes == {NoResponse, StatusCreated, StatusConflict}
StopOutcomes ==
  {NoResponse, StatusAccepted, StatusNoContent, StatusPreconditionFailed}

PostNeverFails(outcome) == FALSE

\* Lines 370 and 382: the outcomes of http.Post the client treats as fatal.
PostFails(outcome) == outcome = NoResponse

\* Lines 104-105: the client role calls syncStartCommand.
main_Client ==
  /\ Running /\ mpc = "main" /\ role = "client"
  /\ mpc' = "postStart"
  /\ UNCHANGED <<cfgVars, extraLabels, proc, envVars, childVars, storeVars,
                 ctlVars, loopVars, collectVars, serverVars, clientVars, sigVars, renderings>>

\* Lines 368-376: POST /start; an error is os.Exit(1), anything else leads
\* to the call of startCommand.
syncStartCommand_PostStart ==
  /\ Running /\ mpc = "postStart"
  /\ \E outcome \in StartOutcomes :
       /\ sent' = Append(sent, Response("/start", outcome))
       /\ IF PostFails(outcome)
            THEN /\ proc' = "exit1"
                 /\ UNCHANGED <<mpc, pc>>
            ELSE /\ mpc' = "run"
                 /\ pc' = [pc EXCEPT ![1] = "begin"]
                 /\ UNCHANGED proc
  /\ UNCHANGED <<cfgVars, extraLabels, envVars, childVars, storeVars,
                 realStartTime, sleepUntil, stamp, loopVars, collectVars,
                 serverVars, peer, sigVars, renderings>>

\* A variant of SendsStop that notifies the stop in every configuration.
SendsStopAlways == TRUE

\* Line 379: whether the client notifies the stop.
SendsStop == syncWaitForStop

\* Lines 378-387: after startCommand has returned, POST /stop when the stop
\* is synchronised too; then main returns.
syncStartCommand_PostStop ==
  /\ Running /\ mpc = "run" /\ role = "client"
  /\ pc[1] = "returned"
  /\ mpc' = "exited"
  /\ IF SendsStop
       THEN \E outcome \in StopOutcomes :
              /\ sent' = Append(sent, Response("/stop", outcome))
              /\ proc' = IF PostFails(outcome) THEN "exit1" ELSE "exit0"
       ELSE /\ proc' = "exit0"
            /\ UNCHANGED sent
  /\ UNCHANGED <<cfgVars, extraLabels, envVars, childVars, storeVars, ctlVars,
                 loopVars, collectVars, serverVars, peer, sigVars, renderings>>

\* ------------------------------------------- a client and its server
\* The server process the client talks to, as far as the handshake goes:
\* the goroutine of an accepted /start exists (spawned), the two flags of
\* waitForHttpSyncToStartCommand, the server's child and the interrupts the
\* /stop handler has delivered to it while it ran.
PeerInit ==
  [spawned |-> FALSE, started |-> FALSE, finished |-> FALSE,
   child |-> "nil", interrupts |-> 0]

\* Lines 404-428: the /start handler of the server.
PeerOnStart(p) ==
  IF p.started
    THEN [status |-> StatusConflict, peer |-> p]
    ELSE [status |-> StatusCreated, peer |-> [p EXCEPT !.spawned = TRUE]]

\* Lines 430-458: the /stop handler of the server.  With the flag set and
\* no child yet, cmd.Process is nil and the handler panics: the connection
\* is closed without a response.
PeerOnStop(p) ==
  IF ~p.started
    THEN [status |-> StatusPreconditionFailed, peer |-> p]
    ELSE IF p.finished
      THEN [status |-> StatusNoContent, peer |-> p]
      ELSE IF p.child = "nil"
        THEN [status |-> NoResponse, peer |-> p]
        ELSE [status |-> StatusAccepted,
              peer |-> [p EXCEPT !.interrupts =
                          IF p.child = "running" THEN @ + 1 ELSE @]]

\* A variant of StopDue that notifies the stop as soon as the child runs.
StopDueEarly == pc[1] = "wait"

\* Lines 375-378: the stop is notified once startCommand has returned.
StopDue == pc[1] = "returned"

\* Lines 368-376 against the server of lines 404-428.
pair_PostStart ==
  /\ Running /\ mpc = "postStart"
  /\ LET r == PeerOnStart(peer)
     IN /\ sent' = Append(sent, Response("/start", r.status))
        /\ peer' = r.peer
  /\ mpc' = "run"
  /\ pc' = [pc EXCEPT ![1] = "begin"]
  /\ UNCHANGED <<cfgVars, extraLabels, proc, envVars, childVars, storeVars,
                 realStartTime, sleepUntil, stamp, loopVars, collectVars,
                 serverVars, sigVars, renderings>>

\* Lines 378-387 against the server of lines 430-458.
pair_PostStop ==
  /\ Running /\ mpc = "run" /\ role = "client"
  /\ StopDue
  /\ mpc' = "exited"
  /\ IF SendsStop
       THEN LET r == PeerOnStop(peer)
            IN /\ sent' = Append(sent, Response("/stop", r.status))
               /\ peer' = r.peer
               /\ proc' = IF PostFails(r.status) THEN "exit1" ELSE "exit0"
       ELSE /\ proc' = "exit0"
            /\ UNCHANGED <<sent, peer>>
  /\ UNCHANGED <<cfgVars, extraLabels, envVars, childVars, storeVars, ctlVars,
                 loopVars, collectVars, serverVars, sigVars, renderings>>

\* Line 415: the server's goroutine sets the started flag.
peer_SetStarted ==
  /\ peer.spawned /\ ~peer.started
  /\ peer' = [peer EXCEPT !.started = TRUE]
  /\ UNCHANGED <<cfgVars, extraLabels, proc, mpc, envVars, childVars,
                 storeVars, ctlVars, loopVars, collectVars, serverVars, sent,
                 sigVars, renderings>>

\* Lines 416 and 511: the server's startCommand starts its child.
peer_ChildStarts ==
  /\ peer.started /\ peer.child = "nil"
  /\ peer' = [peer EXCEPT !.child = "running"]
  /\ UNCHANGED <<cfgVars, extraLabels, proc, mpc, envVars, childVars,
                 storeVars, ctlVars, loopVars, collectVars, serverVars, sent,
                 sigVars, renderings>>

\* The server's child ends, of itself or interrupted.
peer_ChildExits ==
  /\ peer.child = "running"
  /\ peer' = [peer EXCEPT !.child = "exited"]
  /\ UNCHANGED <<cfgVars, extraLabels, proc, mpc, envVars, childVars,
                 storeVars, ctlVars, loopVars, collectVars, serverVars, sent,
                 sigVars, renderings>>

\* Lines 416-417: the server's startCommand returns and the finished flag
\* is set.
peer_Finish ==
  /\ peer.child = "exited" /\ ~peer.finished
  /\ peer' = [peer EXCEPT !.finished = TRUE]
  /\ UNCHANGED <<cfgVars, extraLabels, proc, mpc, envVars, childVars,
                 storeVars, ctlVars, loopVars, collectVars, serverVars, sent,
                 sigVars, renderings>>

\* --------------------------------------------------------------- main
\* Lines 101-103: the standalone role calls startCommand.
main_Standalone ==
  /\ Running /\ mpc = "main" /\ role = "standalone"
  /\ pc' = [pc EXCEPT ![1] = "begin"]
  /\ mpc' = "run"
  /\ UNCHANGED <<cfgVars, extraLabels, proc, envVars, childVars, storeVars,
                 realStartTime, sleepUntil, stamp, loopVars, collectVars,
                 serverVars, clientVars, sigVars, renderings>>

\* Line 109: startCommand has returned and main returns.
main_Return ==
  /\ Running /\ mpc = "run" /\ role = "standalone"
  /\ pc[1] = "returned"
  /\ proc' = "exit0"
  /\ mpc' = "exited"
  /\ UNCHANGED <<cfgVars, extraLabels, envVars, childVars, storeVars, ctlVars,
                 loopVars, collectVars, serverVars, clientVars, sigVars, renderings>>

\* ------------------------------------------------------ specifications
\* The globals as main() finds them (lines 21-44, 82).
InitGlobals ==
  /\ now = 0
  /\ startable \in BOOLEAN
  /\ child = "nil" /\ childExit = 0 /\ childSigints = 0
  /\ metricsStartTime = 0
  /\ commandState = CommandStatusPending
  /\ metricStore = <<>> /\ annotationStore = <<>>
  /\ file = <<>> /\ fileWrites = 0
  /\ pc = [i \in Inv |-> "idle"]
  /\ realStartTime = [i \in Inv |-> 0]
  /\ sleepUntil = [i \in Inv |-> 0]
  /\ stamp = [i \in Inv |-> 0]
  /\ lpc = [i \in Inv |-> "off"]
  /\ msSinceStart = [i \in Inv |-> 0]
  /\ stopGatheringNextIteration = [i \in Inv |-> FALSE]
  /\ tickerNext = [i \in Inv |-> 0]
  /\ tickPending = [i \in Inv |-> FALSE]
  /\ loopCaptures = [i \in Inv |-> 0]
  /\ capturesAtStop = [i \in Inv |-> 0]
  /\ inflight = [t \in Tasks |-> NoMetric]
  /\ base = [t \in Tasks |-> <<>>]
  /\ cmdStarted = FALSE /\ cmdFinished = FALSE
  /\ wgCount = 0 /\ shutdownWaiters = 0
  /\ requests = <<>>
  /\ graceExpired = FALSE
  /\ sent = <<>>
  /\ peer = PeerInit
  /\ sigInstalled = FALSE
  /\ sigs = [i \in Inv |-> 0]
  /\ fwd = [i \in Inv |-> "none"]
  /\ sigints = 0
  /\ sigintsToRunning = 0
  /\ renderings = <<>>

\* Line 35: no extra label before the options are parsed.
InitState ==
  /\ extraLabels = <<>>
  /\ InitGlobals

\* The state when main() is about to dispatch on the role (line 101), for
\* every pair of delays within the bounds.
InitCommon ==
  /\ InitState
  /\ delayBeforeCommand \in 0..MaxDelay
  /\ delayAfterCommand \in 0..MaxDelay
  /\ proc = "running"
  /\ mpc = "main"

\* The steps of one invocation of startCommand and of its sampling loop.
RunStep(i) ==
  \/ startCommand_Begin(i)
  \/ startCommand_SleepBefore(i)
  \/ startCommand_Notify(i)
  \/ startCommand_Start(i)
  \/ startCommand_Running(i)
  \/ startCommand_RunLoad(i)
  \/ startCommand_RunStore(i)
  \/ startCommand_Wait(i)
  \/ startCommand_DoneLoad(i)
  \/ startCommand_DoneStore(i)
  \/ startCommand_SleepAfter(i)
  \/ stopCollectingMetrics(i)
  \/ startCommand_Join(i)
  \/ startMetricCollectLoop_Begin(i)
  \/ startMetricCollectLoop_Load(i)
  \/ startMetricCollectLoop_Store(i)
  \/ startMetricCollectLoop_Tick(i)
  \/ writeResultToFile(i)

InitStandalone ==
  /\ InitCommon
  /\ invSlots = 1
  /\ role = "standalone"
  /\ syncWaitForStop = TRUE
  /\ metricsStartTimeOverride = NoOverride

NextStandalone ==
  \/ main_Standalone
  \/ main_Return
  \/ \E i \in Inv : RunStep(i)
  \/ providerPanics
  \/ timePasses
  \/ childExits

InitLabels ==
  /\ InitState
  /\ role = "standalone"
  /\ syncWaitForStop = TRUE
  /\ metricsStartTimeOverride = NoOverride
  /\ delayBeforeCommand = 0 /\ delayAfterCommand = 0
  /\ invSlots = 1
  /\ proc = "config"
  /\ mpc = "parse"

NextLabels == addLabel

\* The configuration phase: the label options are parsed one by one.
SpecLabels == InitLabels /\ [][NextLabels]_vars

\* The extra labels the serializer is applied with: up to MaxLabels labels
\* that addLabel stores.
RenderKeys == {StoredKey(key) : key \in {k \in LabelKeys : ~Forbidden(k)}}
LabelMaps ==
  UNION {[S -> LabelValues] :
           S \in {T \in SUBSET RenderKeys : Cardinality(T) <= MaxLabels}}

InitRender ==
  /\ InitGlobals
  /\ extraLabels \in LabelMaps
  /\ startable = TRUE
  /\ role = "standalone"
  /\ syncWaitForStop = TRUE
  /\ metricsStartTimeOverride = NoOverride
  /\ delayBeforeCommand = 0 /\ delayAfterCommand = 0
  /\ invSlots = 1
  /\ proc = "running"
  /\ mpc = "write"

NextRender == writeCpuLines

\* The output serializer applied repeatedly to one snapshot, for every set
\* of extra labels within the bounds.
SpecRender == InitRender /\ [][NextRender]_vars

\* The standalone role: main() calls startCommand once.
SpecStandalone == InitStandalone /\ [][NextStandalone]_vars

\* Something in invocation i waits for time to pass: a time.Sleep of the
\* controller (lines 496, 559), or the loop waiting in its select for the
\* tick that follows the stop request (line 581).
AwaitsTime(i) ==
  \/ pc[i] \in {"sleepBefore", "sleepAfter"} /\ sleepUntil[i] > now
  \/ pc[i] = "join" /\ lpc[i] = "select" /\ ~tickPending[i]

\* One second passes after the clock has reached its horizon: the value of
\* the clock is kept and the deadlines of the sleeps move one second back
\* instead; every live ticker puts a tick in its channel.
timePassesLate ==
  /\ Running
  /\ now = Horizon
  /\ \E i \in Inv : AwaitsTime(i)
  /\ sleepUntil' = [i \in Inv |->
       IF sleepUntil[i] > now THEN sleepUntil[i] - 1 ELSE sleepUntil[i]]
  /\ tickPending' = [i \in Inv |->
       IF TickerLive(i) THEN TRUE ELSE tickPending[i]]
  /\ UNCHANGED <<cfgVars, extraLabels, proc, mpc, envVars, childVars,
                 storeVars, pc, realStartTime, stamp, lpc, msSinceStart,
                 stopGatheringNextIteration, tickerNext, loopCaptures,
                 capturesAtStop, collectVars, serverVars, clientVars,
                 sigVars, renderings>>

\* The steps of the goroutine that runs startCommand, the hand-off of the
\* stop request apart.
ControllerStep(i) ==
  \/ startCommand_Begin(i)
  \/ startCommand_SleepBefore(i)
  \/ startCommand_Notify(i)
  \/ startCommand_Start(i)
  \/ startCommand_Running(i)
  \/ startCommand_RunLoad(i)
  \/ startCommand_RunStore(i)
  \/ startCommand_Wait(i)
  \/ startCommand_DoneLoad(i)
  \/ startCommand_DoneStore(i)
  \/ startCommand_SleepAfter(i)
  \/ startCommand_Join(i)

\* The steps of the goroutine that runs startMetricCollectLoop.
LoopStep(i) ==
  \/ startMetricCollectLoop_Begin(i)
  \/ startMetricCollectLoop_Load(i)
  \/ startMetricCollectLoop_Store(i)
  \/ startMetricCollectLoop_Tick(i)
  \/ writeResultToFile(i)

NextStandaloneLive ==
  \/ NextStandalone
  \/ timePassesLate

\* The scheduler runs every goroutine that can take a step, time passes,
\* and the select of line 580, which picks at random among its ready cases,
\* does not leave the quit channel aside for ever.
Fairness ==
  /\ WF_vars(timePasses)
  /\ WF_vars(timePassesLate)
  /\ \A i \in Inv :
       /\ WF_vars(ControllerStep(i))
       /\ WF_vars(LoopStep(i))
       /\ SF_vars(stopCollectingMetrics(i))

\* The standalone role with time followed beyond the horizon of the clock
\* and with fair scheduling.
SpecStandaloneLive ==
  InitStandalone /\ [][NextStandaloneLive]_vars /\ Fairness

\* A time base given with SE_METRICS_START_TIME, in milliseconds.
SampleOverride == 5000

\* The standalone role with or without an override of the time base;
\* startCommand is invoked at the origin of the clock or later.
InitTimeBase ==
  /\ InitCommon
  /\ invSlots = 1
  /\ role = "standalone"
  /\ syncWaitForStop = TRUE
  /\ metricsStartTimeOverride \in {NoOverride, SampleOverride}

SpecTimeBase == InitTimeBase /\ [][NextStandalone]_vars

NextWaitError ==
  \/ NextStandalone
  \/ waitFails

\* The standalone role on a system where waiting for the child can fail.
SpecWaitError == InitStandalone /\ [][NextWaitError]_vars

NextSignals ==
  \/ NextStandalone
  \/ receiveSigint
  \/ \E i \in Inv : forwardSignal(i)

\* The standalone role in an environment that sends SIGINT to the process.
SpecSignals == InitStandalone /\ [][NextSignals]_vars

InitServer ==
  /\ InitCommon
  /\ invSlots = 1
  /\ role = "server"
  /\ syncWaitForStop \in BOOLEAN
  /\ metricsStartTimeOverride = NoOverride

NextServer ==
  \/ main_Server
  \/ handleStart
  \/ handleStop
  \/ \E i \in Inv : startGoroutine_SetStarted(i)
  \/ \E i \in Inv : startGoroutine_Finish(i)
  \/ serverShutdown
  \/ \E i \in Inv : RunStep(i)
  \/ providerPanics
  \/ timePasses
  \/ childExits

\* The server role: requests arrive one after the other, each handled to
\* its response before the next one.  One goroutine of an accepted /start is
\* followed: no /start arrives between the response to an accepted /start and
\* the first step of its goroutine.
SpecServer == InitServer /\ [][NextServer]_vars

NextGrace ==
  \/ NextServer
  \/ graceExpires

\* The server role over a time long enough for the timeout of a shutdown
\* context to elapse.
SpecGrace == InitServer /\ [][NextGrace]_vars

InitServerRace ==
  /\ InitCommon
  /\ invSlots = MaxInv
  /\ role = "server"
  /\ syncWaitForStop \in BOOLEAN
  /\ metricsStartTimeOverride = NoOverride

\* The steps of an invocation of startCommand up to cmd.Start(), with its
\* sampling loop.
RunPrefixStep(i) ==
  \/ startCommand_Begin(i)
  \/ startCommand_SleepBefore(i)
  \/ startCommand_Notify(i)
  \/ startCommand_Start(i)
  \/ startMetricCollectLoop_Begin(i)
  \/ startMetricCollectLoop_Load(i)
  \/ startMetricCollectLoop_Store(i)
  \/ startMetricCollectLoop_Tick(i)

NextServerRace ==
  \/ main_Server
  \/ handleStart
  \/ handleStop
  \/ \E i \in Inv : startGoroutine_SetStarted(i)
  \/ \E i \in Inv : RunPrefixStep(i)
  \/ timePasses
  \/ childExits

\* The server role with every goroutine of an accepted /start followed, each
\* up to its cmd.Start(): what /start requests lead to before the command
\* runs.
SpecServerRace == InitServerRace /\ [][NextServerRace]_vars

InitClient ==
  /\ InitCommon
  /\ invSlots = 1
  /\ role = "client"
  /\ syncWaitForStop \in BOOLEAN
  /\ metricsStartTimeOverride = NoOverride

NextClient ==
  \/ main_Client
  \/ syncStartCommand_PostStart
  \/ syncStartCommand_PostStop
  \/ \E i \in Inv : RunStep(i)
  \/ providerPanics
  \/ timePasses
  \/ childExits

\* The client role: syncStartCommand against some server.
SpecClient == InitClient /\ [][NextClient]_vars

InitPair ==
  /\ InitCommon
  /\ invSlots = 1
  /\ role = "client"
  /\ syncWaitForStop = TRUE
  /\ metricsStartTimeOverride = NoOverride

NextPair ==
  \/ main_Client
  \/ pair_PostStart
  \/ pair_PostStop
  \/ \E i \in Inv : RunStep(i)
  \/ providerPanics
  \/ timePasses
  \/ childExits
  \/ peer_SetStarted
  \/ peer_ChildStarts
  \/ peer_ChildExits
  \/ peer_Finish

\* A client and the server it notifies, running together.
SpecPair == InitPair /\ [][NextPair]_vars

\* ================================================================ claims
Last(q) == q[Len(q)]

\* The invocations of startCommand that have returned.
Returned(i) == pc[i] \in {"returned", "finished"}

\* C1: an invocation of startCommand whose child starts appends exactly two
\* annotations, "Command started" first and "Command done" second, and the
\* time of the first is at most the time of the second: never more than
\* two, in that order, none before the child has started, one while the
\* child is awaited, and two from the "done" annotation to the return.
C1_TwoAnnotationsInOrder ==
  /\ Len(annotationStore) <= 2
  /\ Len(annotationStore) >= 1 =>
       /\ annotationStore[1].Text = <<"Command started">>
       /\ annotationStore[1].Tag = "start"
  /\ Len(annotationStore) = 2 =>
       /\ annotationStore[2].Text[1] = "Command done with status"
       /\ annotationStore[2].Tag = "done"
       /\ annotationStore[1].Time <= annotationStore[2].Time
  /\ \A i \in Inv :
       /\ pc[i] \in {"begin", "sleepBefore", "notify", "start", "started",
                     "runGather", "runAppend"} => Len(annotationStore) = 0
       /\ pc[i] \in {"wait", "doneGather", "doneAppend"} =>
            Len(annotationStore) = 1
       /\ pc[i] \in {"sleepAfter", "stop", "join", "returned"} =>
            Len(annotationStore) = 2

\* C1 witness: startCommand has returned after a child that ran for a second.
C1_Witness ==
  /\ pc[1] = "returned"
  /\ Len(annotationStore) = 2
  /\ annotationStore[1].Time < annotationStore[2].Time

\* C2: the loop captures at msSinceStart = 0 before it first waits; a stop
\* request arms the flag and leaves the loop waiting; the loop makes exactly
\* one more capture, a tick, after the stop request and then exits.
C2_OneTickAfterStop ==
  \A i \in Inv :
    /\ (lpc[i] \in {"gather", "append"} /\ loopCaptures[i] = 0) =>
         /\ inflight[Loop(i)].msSinceStart = 0
         /\ msSinceStart[i] = 0
    /\ lpc[i] = "select" =>
         /\ loopCaptures[i] >= 1
         /\ loopCaptures[i] = (msSinceStart[i] \div TickMs) + 1
    /\ (lpc[i] = "select" /\ stopGatheringNextIteration[i]) =>
         loopCaptures[i] = capturesAtStop[i]
    /\ (lpc[i] \in {"gather", "append"} /\ stopGatheringNextIteration[i]) =>
         /\ loopCaptures[i] = capturesAtStop[i]
         /\ inflight[Loop(i)].msSinceStart = capturesAtStop[i] * TickMs
    /\ lpc[i] \in {"write", "done"} =>
         /\ stopGatheringNextIteration[i]
         /\ loopCaptures[i] = capturesAtStop[i] + 1
    /\ (pc[i] = "join" /\ loopCaptures[i] = capturesAtStop[i]) =>
         lpc[i] \in {"select", "gather", "append"}

\* C2 witness: the child exited at once and the loop has exited with its two
\* captures, the one at 0 and the one tick after the stop request.
C2_Witness ==
  /\ lpc[1] = "done"
  /\ capturesAtStop[1] = 1
  /\ loopCaptures[1] = 2
  /\ annotationStore[2].Time = 0

\* C3: when startCommand has returned, its loop has exited and the metrics
\* file has been written once and holds both annotations and every snapshot
\* of the metric store; it is not written again.
C3_ReturnAfterFullWrite ==
  \A i \in Inv :
    Returned(i) =>
      /\ lpc[i] = "done"
      /\ fileWrites = 1
      /\ file = Rendered(annotationStore, metricStore)
      /\ Len(annotationStore) = 2

\* C3 witness: startCommand has returned and the file holds three snapshots
\* or more.
C3_Witness ==
  /\ pc[1] = "returned"
  /\ file # <<>>
  /\ Len(file[1].metrics) >= 3

\* C4: the stop request is sent only with commandState Done and the "Command
\* done" annotation recorded, so that the last snapshot of the metric store
\* once the loop has exited, which is the last one written to the file, has
\* the command status Done.
C4_LastSnapshotDone ==
  /\ \A i \in Inv :
       /\ (pc[i] \in {"join", "returned"} \/ stopGatheringNextIteration[i]) =>
            /\ commandState = CommandStatusDone
            /\ Len(annotationStore) = 2
            /\ annotationStore[2].Tag = "done"
       /\ lpc[i] \in {"write", "done"} =>
            Last(metricStore).cmdStatus = CommandStatusDone
  /\ file # <<>> =>
       /\ file[1].metrics # <<>>
       /\ Last(file[1].metrics).cmdStatus = CommandStatusDone

\* C4 witness: the file is written, its first snapshot was taken with the
\* command pending and its last with the command done.
C4_Witness ==
  /\ file # <<>>
  /\ file[1].metrics[1].cmdStatus = CommandStatusPending
  /\ Last(file[1].metrics).cmdStatus = CommandStatusDone

\* The paths and the statuses of the requests the server has answered, and
\* of the notifications the client has sent, in order.
Paths(q) == [k \in DOMAIN q |-> q[k].path]
Statuses(q) == [k \in DOMAIN q |-> q[k].status]
IsPrefix(p, q) == Len(p) <= Len(q) /\ \A k \in DOMAIN p : p[k] = q[k]

\* The invocations of startCommand a /start request has led to.
Invocations == {i \in Inv : pc[i] # "idle"}

\* C5: in the server role, when only /start requests are made, one after the
\* other, the first is answered 201, every later one is answered 409, and
\* the Execution Controller is invoked once.
C5_StartOnceThenConflict ==
  (role = "server" /\ \A k \in DOMAIN requests : requests[k].path = "/start")
    => /\ \A k \in DOMAIN requests :
            requests[k].status =
              IF k = 1 THEN StatusCreated ELSE StatusConflict
       /\ Cardinality(Invocations) <= 1

\* C6: in the server role, the requests start, stop, stop, one after the
\* other, are answered 201, 202, 204.
C6_StartStopStop ==
  (role = "server"
     /\ IsPrefix(Paths(requests), <<"/start", "/stop", "/stop">>))
    => IsPrefix(Statuses(requests),
                <<StatusCreated, StatusAccepted, StatusNoContent>>)

\* C7: in the server role, as long as no /start has been received every
\* /stop is answered 412 and changes nothing (no signal, the flags false,
\* no shutdown scheduled, no invocation, the server still serving), and the
\* first /start after such /stop requests is answered 201.
C7_StopBeforeStart ==
  role = "server" =>
    /\ (\A k \in DOMAIN requests : requests[k].path = "/stop")
         => /\ \A k \in DOMAIN requests :
                 requests[k].status = StatusPreconditionFailed
            /\ ~cmdStarted /\ ~cmdFinished
            /\ childSigints = 0
            /\ shutdownWaiters = 0
            /\ wgCount = 0
            /\ Invocations = {}
            /\ child = "nil"
            /\ Running
    /\ \A k \in DOMAIN requests :
         (/\ requests[k].path = "/start"
          /\ \A j \in 1..(k - 1) : requests[j].path = "/stop")
           => requests[k].status = StatusCreated

\* A /stop answered 412 has been followed by a /start answered 201.
C7_Witness ==
  /\ role = "server"
  /\ Len(requests) >= 2
  /\ requests[1] = Response("/stop", StatusPreconditionFailed)
  /\ requests[2] = Response("/start", StatusCreated)
  /\ cmdStarted

\* C8: in the client role, when the start notification fails at transport
\* level the process exits non-zero before startCommand: no invocation, no
\* child, no sampling loop, no snapshot, and no stop notification.
C8_TransportErrorIsFatal ==
  (role = "client" /\ Len(sent) >= 1 /\ sent[1].status = NoResponse)
    => /\ proc = "exit1"
       /\ Len(sent) = 1
       /\ Invocations = {}
       /\ child = "nil"
       /\ \A i \in Inv : lpc[i] = "off"
       /\ metricStore = <<>> /\ annotationStore = <<>>

\* The start notification has failed at transport level.
C8_Witness ==
  /\ role = "client"
  /\ sent = <<Response("/start", NoResponse)>>
  /\ proc = "exit1"

\* The statuses of a successful HTTP response.
Is2xx(status) == status \in 200..299

\* C9: in the client role, a notification answered with a non-2xx status (or
\* not answered) ends the process with a non-zero exit, and after such an
\* answer to /start the command is not started.
C9_Non2xxIsFatal ==
  role = "client" =>
    \A k \in DOMAIN sent :
      ~Is2xx(sent[k].status)
        => /\ proc = "exit1"
           /\ (sent[k].path = "/start" => Invocations = {} /\ child = "nil")

\* The label names the metric writer uses itself.
ReservedKeys == forbiddenKeys \cup { <<"d", "i", "s", "k">> }

\* C10: no key that equals instance, job, cpu, mode, interface or disk,
\* after the replacement of non-alphanumeric characters by "_" and ignoring
\* letter case, is ever stored in extraLabels.
C10_NoReservedLabelStored ==
  \A k \in DOMAIN extraLabels : k \notin ReservedKeys


\* C11: a SIGINT received after the handler is installed never crashes
\* statexec: the goroutine that forwards it does not panic, at whatever
\* point of startCommand the signal arrives.
C11_SigintNeverCrashes ==
  \A i \in Inv : fwd[i] # "panicked"

\* The signals in the channel of invocation i that its goroutine will still
\* receive.
PendingSignals(i) == IF fwd[i] = "waiting" THEN sigs[i] ELSE 0

RECURSIVE SumPending(_)
SumPending(S) ==
  IF S = {} THEN 0
  ELSE LET i == CHOOSE j \in S : TRUE
       IN PendingSignals(i) + SumPending(S \ {i})

\* C12: while the child runs, every SIGINT that reached the handler's
\* channel while the child was running has been forwarded to the child or
\* is about to be, the second and later ones included.
C12_EverySigintForwarded ==
  child = "running" => sigintsToRunning <= childSigints + SumPending(Inv)


\* C13: a /stop handled while the command is started and not finished is
\* answered 202, whatever the point the controller has reached, and when
\* the child is running the interrupt reaches it.
C13_StopAlwaysAccepted ==
  [][(/\ role = "server"
      /\ cmdStarted /\ ~cmdFinished
      /\ Len(requests') = Len(requests) + 1
      /\ Last(requests').path = "/stop")
       => /\ Last(requests').status = StatusAccepted
          /\ (child = "running" => childSigints' = childSigints + 1)]_vars


\* Some /stop request has been answered with one of the given statuses.
StopAnswered(statuses) ==
  \E k \in DOMAIN requests :
    requests[k].path = "/stop" /\ requests[k].status \in statuses

\* Every invocation of startCommand has returned, its loop has written the
\* artifact, and the artifact holds both stores.
ControllersComplete ==
  /\ Invocations # {}
  /\ \A i \in Invocations : pc[i] = "finished" /\ lpc[i] = "done"
  /\ fileWrites >= 1
  /\ file = Rendered(annotationStore, metricStore)

\* C14: in the server role the control endpoint is shut down only after a
\* /stop was answered 202 or 204 and startCommand has returned, post-delay
\* and artifact included.
C14_ShutdownAfterController ==
  (role = "server" /\ mpc = "exited")
    => /\ StopAnswered({StatusAccepted, StatusNoContent})
       /\ ControllersComplete

\* The server has shut down after an accepted /stop and a post-delay.
C14_Witness ==
  /\ role = "server" /\ mpc = "exited"
  /\ StopAnswered({StatusAccepted})
  /\ delayAfterCommand > 0
  /\ pc[1] = "finished"


\* C15: in the server role that does not wait for a stop, the process ends
\* with status 0 only once startCommand has returned and the artifact is
\* written.
C15_ExitAfterReturn ==
  (role = "server" /\ ~syncWaitForStop /\ proc = "exit0")
    => ControllersComplete

\* The process has ended with status 0 without any /stop request.
C15_Witness ==
  /\ role = "server" /\ ~syncWaitForStop /\ proc = "exit0"
  /\ \A k \in DOMAIN requests : requests[k].path = "/start"
  /\ pc[1] = "finished" /\ fileWrites = 1


\* C16: in the server role that waits for a stop, the process does not end
\* when the command finishes: after the command it keeps serving until a
\* /stop has been answered 202 or 204, and it ends with status 0 only by
\* the shutdown that follows such a /stop.
C16_ServesUntilStop ==
  (role = "server" /\ syncWaitForStop)
    => /\ proc = "exit0"
            => mpc = "exited" /\ StopAnswered({StatusAccepted, StatusNoContent})
       /\ ((\E i \in Inv : pc[i] = "finished")
             /\ ~StopAnswered({StatusAccepted, StatusNoContent}))
            => Running /\ mpc = "serving"

\* The command has finished by itself and the server is still serving.
C16_Witness ==
  /\ role = "server" /\ syncWaitForStop
  /\ pc[1] = "finished" /\ cmdFinished
  /\ \A k \in DOMAIN requests : requests[k].path = "/start"
  /\ Running /\ mpc = "serving"

\* C17: in the client role startCommand begins only after the start
\* notification was sent and answered; the stop notification is the second
\* and last one, sent only after startCommand has returned and only when
\* the stop is synchronised.
C17_ClientOrder ==
  role = "client"
    => /\ Invocations # {}
            => /\ Len(sent) >= 1
               /\ sent[1].path = "/start"
               /\ sent[1].status # NoResponse
       /\ Len(sent) <= 2
       /\ Len(sent) = 2
            => /\ sent[2].path = "/stop"
               /\ syncWaitForStop
               /\ pc[1] = "returned"
               /\ file = Rendered(annotationStore, metricStore)
               /\ fileWrites = 1

\* The stop notification has been sent after startCommand returned.
C17_Witness ==
  /\ role = "client" /\ syncWaitForStop
  /\ Len(sent) = 2 /\ sent[2] = Response("/stop", StatusAccepted)
  /\ pc[1] = "returned" /\ proc = "exit0"


\* C18: two renderings of the same stores are identical: same order of the
\* per-CPU mode lines, same order of the labels on each line.
C18_RenderingDeterministic ==
  \A a, b \in DOMAIN renderings : renderings[a] = renderings[b]


\* A completed standalone run with no delays whose child was started at
\* once and was found exited two sampling periods later.
TwoSecondRun ==
  /\ role = "standalone"
  /\ delayBeforeCommand = 0 /\ delayAfterCommand = 0
  /\ Returned(1)
  /\ Len(annotationStore) = 2
  /\ annotationStore[1].Time = 0
  /\ annotationStore[2].Time = 2 * TickMs

\* C19: such a run leaves exactly 3 snapshots in the metric store, taken at
\* 0, 1000 and 2000 ms, with command status 0 or 1 at the first two and 2
\* at the last.
C19_ThreeSnapshots ==
  TwoSecondRun
    => /\ Len(metricStore) = 3
       /\ [k \in 1..3 |-> metricStore[k].msSinceStart] = <<0, TickMs, 2 * TickMs>>
       /\ \A k \in 1..2 :
            metricStore[k].cmdStatus
              \in {CommandStatusPending, CommandStatusRunning}
       /\ metricStore[3].cmdStatus = CommandStatusDone


\* The invocations whose time base has been set (lines 470-476 have run).
Based == {i \in Invocations : pc[i] \notin {"spawned", "begin"}}

\* The number of ticks the loop of invocation i has taken.
TicksTaken(i) ==
  IF lpc[i] \in {"gather", "append"} THEN loopCaptures[i]
                                     ELSE loopCaptures[i] - 1

\* C20: the time base is the override when one is configured and the wall
\* clock at the invocation of startCommand otherwise; every snapshot's
\* timestamp is the base plus its ms-since-start; the k-th capture of the
\* loop has ms-since-start 1000 * k from k = 0, so that with an override its
\* timestamp is override + 1000 * k whatever the real start time.
C20_TimeBase ==
  \A i \in Based :
    /\ metricsStartTime =
         IF metricsStartTimeOverride # NoOverride
           THEN metricsStartTimeOverride
           ELSE realStartTime[i] * TickMs
    /\ \A k \in DOMAIN metricStore :
         metricStore[k].timestamp =
           metricsStartTime + metricStore[k].msSinceStart
    /\ lpc[i] \notin {"off", "start"} => msSinceStart[i] = TickMs * TicksTaken(i)
    /\ lpc[i] \in {"gather", "append"}
         => /\ inflight[Loop(i)].msSinceStart = TickMs * loopCaptures[i]
            /\ metricsStartTimeOverride # NoOverride
                 => inflight[Loop(i)].timestamp =
                      metricsStartTimeOverride + TickMs * loopCaptures[i]

\* A run invoked one second after the clock's origin with an override has
\* stored the snapshot of its second tick.
C20_Witness ==
  /\ metricsStartTimeOverride = SampleOverride
  /\ realStartTime[1] = 1 /\ 1 \in Based
  /\ loopCaptures[1] = 2
  /\ \E k \in DOMAIN metricStore :
       /\ metricStore[k].msSinceStart = TickMs
       /\ metricStore[k].timestamp = SampleOverride + TickMs


\* The pre-start positions of startCommand.
BeforeStart == {"idle", "spawned", "begin", "sleepBefore", "notify", "start"}

\* C21: when the child cannot be started the program ends with a non-zero
\* exit at cmd.Start and goes no further: no child, CommandState still
\* Pending, no annotation, and in the client role no /stop notification.
C21_StartFailureIsFatal ==
  /\ ~startable
       => /\ child = "nil"
          /\ \A i \in Inv : pc[i] \in BeforeStart
          /\ commandState = CommandStatusPending
          /\ annotationStore = <<>>
          /\ \A k \in DOMAIN sent : sent[k].path # "/stop"
          /\ proc # "exit0"
  /\ \A i \in Inv :
       (pc[i] = "start" /\ ~Running /\ proc # "panic") => proc = "exit1"

\* The client has been told to start and its child could not be started.
C21_Witness ==
  /\ role = "client" /\ ~startable
  /\ pc[1] = "start" /\ proc = "exit1"
  /\ sent = <<Response("/start", StatusCreated)>>
  /\ Len(metricStore) >= 1


\* The label names renderLabels always emits (lines 603-605) and the label
\* names of the metric families (lines 727-729, 747 and 756), spelled as
\* label keys are.
IdentityKeys ==
  { <<"i", "n", "s", "t", "a", "n", "c", "e">>, <<"j", "o", "b">>,
    <<"r", "o", "l", "e">> }
DimensionKeys ==
  { {}, { <<"c", "p", "u">>, <<"m", "o", "d", "e">> },
    { <<"i", "n", "t", "e", "r", "f", "a", "c", "e">> },
    { <<"d", "i", "s", "k">> } }

\* C22: on every metric line the identity labels, the labels of the metric
\* family and the stored extra labels are pairwise disjoint, so that no
\* label name is rendered twice.
C22_NoDuplicateLabel ==
  \A family \in DimensionKeys :
    /\ IdentityKeys \cap family = {}
    /\ IdentityKeys \cap DOMAIN extraLabels = {}
    /\ family \cap DOMAIN extraLabels = {}


\* The loop goroutine of invocation i exists and has not left its loop.
LoopAlive(i) == lpc[i] \in {"start", "gather", "append", "select"}

\* C23: the sampling loop covers the window of its invocation: it exists
\* from before the pre-delay, through the run of the child, until the stop
\* request, and it leaves its loop only when both delays have elapsed.
C23_LoopCoversWindow ==
  \A i \in Inv :
    /\ pc[i] \in {"sleepBefore", "notify", "start", "started", "runGather",
                   "runAppend", "wait", "doneGather", "doneAppend",
                   "sleepAfter", "stop"}
         => LoopAlive(i) /\ ~stopGatheringNextIteration[i]
    /\ (child = "running" /\ pc[i] \notin BeforeStart) => LoopAlive(i)
    /\ lpc[i] \in {"write", "done"}
         => /\ pc[i] \in {"join", "returned", "finished"}
            /\ now >= realStartTime[i] + delayBeforeCommand + delayAfterCommand

\* A run with both delays has ended its loop.
C23_Witness ==
  /\ delayBeforeCommand > 0 /\ delayAfterCommand > 0
  /\ lpc[1] = "done" /\ pc[1] = "returned"


\* The /start requests answered 201.
StartsCreated ==
  {k \in DOMAIN requests : requests[k] = Response("/start", StatusCreated)}

\* C24: whatever the interleaving of the requests, at most one /start is
\* answered 201 and the Execution Controller is invoked at most once.
C24_AtMostOneStart ==
  role = "server"
    => Cardinality(StartsCreated) <= 1 /\ Cardinality(Invocations) <= 1

\* C25: a /stop handled when the command has finished is answered 204 and
\* has no other effect: no signal, no flag changed, no shutdown scheduled,
\* the process still serving.
C25_StopAfterFinishIsInert ==
  [][(/\ role = "server"
      /\ cmdStarted /\ cmdFinished
      /\ Len(requests') = Len(requests) + 1
      /\ Last(requests').path = "/stop")
       => /\ Last(requests').status = StatusNoContent
          /\ UNCHANGED <<childSigints, cmdStarted, cmdFinished,
                         shutdownWaiters, proc, mpc>>]_vars

\* C26: the timeout of the shutdown context never elapses while the
\* Execution Controller is still running, and the shutdown never ends in a
\* crash of the process.
C26_GraceAfterController ==
  role = "server"
    => /\ graceExpired => ControllersDone
       /\ mpc # "shutdownFailed"


\* The positions of startCommand after cmd.Wait() has returned.
AfterWait ==
  {"doneGather", "doneAppend", "sleepAfter", "stop", "join", "returned",
   "finished"}

\* C27: a child that exited, with whatever exit code, lets the run go on;
\* a child that could not be waited for is fatal: the run does not go past
\* cmd.Wait(), records no "done" annotation and does not end with status 0.
C27_WaitFailureIsFatal ==
  child = "unwaitable"
    => /\ \A i \in Inv : pc[i] \notin AfterWait
       /\ Len(annotationStore) <= 1
       /\ proc # "exit0"


\* C28: the started flag and the finished flag of the server are never
\* reset once true, and finished implies started.
C28_SyncStateMonotonic ==
  /\ [](cmdFinished => cmdStarted)
  /\ [][(cmdStarted => cmdStarted') /\ (cmdFinished => cmdFinished')]_vars

\* The server has reached "finished" and has handled a request since.
C28_Witness ==
  /\ role = "server" /\ cmdStarted /\ cmdFinished
  /\ Len(requests) >= 2 /\ Last(requests).status = StatusNoContent

\* C29: CommandState changes only in a step of startCommand, by one, from
\* Pending to Running once the child has started and from Running to Done
\* once the child has exited; it never goes back.
C29_CommandStateAdvances ==
  /\ [](commandState \in {0, 1, 2})
  /\ [][commandState' # commandState
          => /\ commandState' = commandState + 1
             /\ \E i \in Inv : pc'[i] # pc[i] /\ pc[i] \in {"started", "wait"}
             /\ lpc' = lpc
             /\ commandState' = 1 => child = "running" \/ child = "exited"
             /\ commandState' = 2 => child = "exited"]_vars

\* The command state has gone through its three values.
C29_Witness ==
  /\ commandState = CommandStatusDone
  /\ child = "exited" /\ Returned(1)
  /\ \E k \in DOMAIN metricStore : metricStore[k].cmdStatus = CommandStatusPending
  /\ \E k \in DOMAIN metricStore : metricStore[k].cmdStatus = CommandStatusRunning


\* The controller of invocation i has made its last append to a store.
ControllerDoneAppending(i) ==
  pc[i] \in {"sleepAfter", "stop", "join", "returned", "finished"}

\* C30: only the sampling loop appends to the metric store, no two tasks
\* are inside an append to the same store at once, and the stores are
\* rendered only after their writers have made their last append.
C30_SingleWriter ==
  /\ \A i \in Inv : ~Collecting(Ctl(i))
  /\ \A t \in Tasks : Collecting(t) => ~Raced(t)
  /\ \A i \in Inv :
       lpc[i] \in {"write", "done"}
         => ControllerDoneAppending(i) /\ \A t \in Tasks : ~Collecting(t)


\* C31: the stores only grow at their end, so that the snapshots stay in
\* the order of their ticks and the annotations in the order of their
\* events, every tick of the loop adds its snapshot at the end, and the
\* file holds the stores as they are, entry for entry.
C31_StoresKeepOrder ==
  [][/\ IsPrefix(metricStore, metricStore')
     /\ IsPrefix(annotationStore, annotationStore')
     /\ \A i \in Inv :
          loopCaptures'[i] # loopCaptures[i]
            => /\ Len(metricStore') = Len(metricStore) + 1
               /\ Last(metricStore').msSinceStart = msSinceStart[i]
     /\ fileWrites' # fileWrites
          => /\ file'[1].metrics = metricStore
             /\ file'[1].annotations = annotationStore]_vars


\* C32: the process ends by a panic only at a capture whose provider
\* failed; a capture once begun ends only with its snapshot appended (it is
\* never skipped), and after the panic nothing is appended or written.
C32_ProviderFailureIsFatal ==
  [][/\ (proc' = "panic" /\ proc # "panic")
          => /\ \E t \in Tasks : Gathering(t)
             /\ metricStore' = metricStore
     /\ \A t \in Tasks :
          (Collecting(t) /\ ~Collecting(t)')
            => /\ Len(metricStore') >= 1
               /\ Last(metricStore') = inflight[t]
     /\ proc = "panic"
          => /\ proc' = "panic"
             /\ UNCHANGED <<metricStore, annotationStore, file, pc, lpc>>]_vars

\* A provider has failed at a capture that follows a stored snapshot.
C32_Witness ==
  /\ proc = "panic"
  /\ Len(metricStore) >= 1
  /\ \E t \in Tasks : Gathering(t) /\ inflight[t] # NoMetric


\* C33: read in store order, the command status of the snapshots never
\* goes down.
C33_StatusNonDecreasing ==
  \A k, l \in DOMAIN metricStore :
    k < l => metricStore[k].cmdStatus <= metricStore[l].cmdStatus

\* C34: read in store order, the timestamps of the snapshots never go
\* down.
C34_TimestampsNonDecreasing ==
  \A k, l \in DOMAIN metricStore :
    k < l => metricStore[k].timestamp <= metricStore[l].timestamp

\* The metrics of the file hold a snapshot taken in command state cs.
FileHolds(cs) ==
  /\ file # <<>>
  /\ \E k \in DOMAIN file[1].metrics : file[1].metrics[k].cmdStatus = cs

\* C35: once startCommand has returned from a run whose child started, the
\* file holds a snapshot with status Running and one with status Done.
C35_RunningAndDoneCaptured ==
  \A i \in Inv :
    (Returned(i) /\ child = "exited")
      => FileHolds(CommandStatusRunning) /\ FileHolds(CommandStatusDone)


\* C36: once the child has exited, startCommand returns (unless the
\* process ends first): the stop request is handed to the loop, the loop
\* takes its final tick and writes the file, and the wait of line 566 ends.
C36_StartCommandTerminates ==
  \A i \in Inv :
    (pc[i] = "wait" /\ child = "exited") ~> (Returned(i) \/ ~Running)

\* startCommand has returned after a post-delay, with the file written.
C36_Witness ==
  /\ Returned(1) /\ child = "exited"
  /\ delayAfterCommand = MaxDelay
  /\ stopGatheringNextIteration[1] /\ lpc[1] = "done"
  /\ file # <<>>


\* C37: the /stop handler of the server interrupts the server's child only
\* when the client's startCommand has returned: the client's child has
\* exited, the post-delay is over and the client's file is written.
C37_StopAfterClientRun ==
  /\ [](peer.interrupts > 0
          => /\ child = "exited"
             /\ pc[1] = "returned"
             /\ file = Rendered(annotationStore, metricStore))
  /\ [][peer'.interrupts # peer.interrupts
          => /\ child = "exited" /\ commandState = CommandStatusDone
             /\ lpc[1] = "done"
             /\ now >= realStartTime[1] + delayBeforeCommand + delayAfterCommand
             /\ fileWrites = 1]_vars

\* The server's child has been interrupted by the client's stop
\* notification.
C37_Witness ==
  /\ peer.interrupts = 1 /\ peer.child = "exited"
  /\ Last(sent) = Response("/stop", StatusAccepted)
  /\ delayAfterCommand = MaxDelay
  /\ proc = "exit0"


\* C38: in the server role the finished flag is true only once startCommand
\* has returned with the file written from the final stores, and a /stop
\* answered 204 finds that file.
C38_FinishedAfterReturn ==
  role = "server"
    => /\ cmdFinished
            => /\ \E i \in Invocations : pc[i] = "finished" /\ lpc[i] = "done"
               /\ stopGatheringNextIteration[1]
               /\ fileWrites = 1
               /\ file = Rendered(annotationStore, metricStore)
       /\ \A k \in DOMAIN requests :
            requests[k] = Response("/stop", StatusNoContent)
              => cmdFinished /\ file # <<>>

\* A /stop has been answered 204 by a server whose command had finished.
C38_Witness ==
  /\ role = "server" /\ cmdFinished
  /\ Last(requests) = Response("/stop", StatusNoContent)
  /\ Len(file[1].annotations) = 2


\* C39: a server process that has ended with status 1 has no running
\* child: no /start request makes the server end while its command runs.
C39_StartNeverKillsServer ==
  (role = "server" /\ proc = "exit1") => child # "running"

\* C40: a client that has ended because its stop notification failed has
\* left its file written from the final stores, with the two annotations of
\* the run.
C40_StopFailureKeepsMetrics ==
  (role = "client" /\ proc = "exit1" /\ Len(sent) = 2
     /\ Last(sent) = Response("/stop", NoResponse))
    => /\ fileWrites = 1
       /\ file = Rendered(annotationStore, metricStore)
       /\ Len(file[1].annotations) = 2
       /\ Len(file[1].metrics) >= 1
       /\ Last(file[1].metrics).cmdStatus = CommandStatusDone

\* The client has ended with status 1 on a failed stop notification.
C40_Witness ==
  /\ role = "client" /\ proc = "exit1"
  /\ sent = <<Response("/start", StatusCreated), Response("/stop", NoResponse)>>
  /\ file # <<>> /\ child = "exited"

====
